---------------------------- MODULE Spec2Model ----------------------------
(***************************************************************************)
(* Model of the RSAF file container of rsa-py-gui (src/py/rsaa.py):        *)
(* RSA_plain.encrypt_file, RSA_plain.decrypt_file and                      *)
(* RSA_plain.validate_rsaf_file, together with the key operations of the   *)
(* RSA_plain instance that decide which keys those calls run under.        *)
(*                                                                         *)
(* Files are byte sequences (bytes are 0..255), strings are sequences of   *)
(* Unicode code points, and the header is packed and parsed byte by byte   *)
(* as struct.pack / struct.unpack do.                                      *)
(***************************************************************************)
EXTENDS Integers, Sequences, FiniteSets, TLC

VARIABLES
    private_key,   \* RSA_plain._private_key: None or a key
    public_key,    \* RSA_plain._public_key:  None or a key
    fs,            \* the file system: path -> [exists, data]
    pristine,      \* history: the last file a completed encrypt_file wrote
    tamper,        \* history: what was done to that file after it was written
    ret,           \* the most recent call and what it returned or raised
    app            \* the window of src/main.py: its fields

vars == <<private_key, public_key, fs, pristine, tamper, ret, app>>

-----------------------------------------------------------------------------
(* Program constants, src/py/rsaa.py:8-12.                                 *)

MAX_ENCRYPT_PER_BLOCK == 190
ENCRYPTED_BLOCK_SIZE == 256
FILE_HEADER_SIZE == 32
RSAF_VERSION == 1
RSAF_MAGIC == <<82, 83, 65, 70>>

-----------------------------------------------------------------------------
(* Bounds of the model.                                                    *)

\* plaintexts have lengths 0 .. MaxChunks * MAX_ENCRYPT_PER_BLOCK
MaxChunks == 3

-----------------------------------------------------------------------------
(* Bytes.                                                                  *)

Min(a, b) == IF a <= b THEN a ELSE b


RECURSIVE BitXor(_, _, _)
BitXor(a, b, n) ==
    IF n = 0 THEN 0
    ELSE (((a % 2) + (b % 2)) % 2) + (2 * BitXor(a \div 2, b \div 2, n - 1))

\* a ^ b on two bytes
XorTab == [a \in 0..255 |-> [b \in 0..255 |-> BitXor(a, b, 8)]]

\* bytes(a ^ b for a, b in zip(x, y)): zip stops at the shorter operand
XorZip(x, y) == [j \in 1..Min(Len(x), Len(y)) |-> XorTab[x[j]][y[j]]]

XorConst(x, c) == [j \in 1..Len(x) |-> XorTab[x[j]][c]]

Zeros(n) == [j \in 1..n |-> 0]

\* f.read(n) with the stream at offset pos
Read(data, pos, n) == SubSeq(data, pos + 1, Min(pos + n, Len(data)))

\* struct.pack("<H" | "<I" | "<Q", n): w little-endian bytes
RECURSIVE Pack(_, _)
Pack(n, w) ==
    IF w = 0 THEN <<>> ELSE <<n % 256>> \o Pack(n \div 256, w - 1)

\* struct.unpack of a little-endian unsigned field
RECURSIVE Unpack(_)
Unpack(b) ==
    IF Len(b) = 0 THEN 0 ELSE b[1] + (256 * Unpack(Tail(b)))

-----------------------------------------------------------------------------
(* Strings: str.encode("utf-8"), bytes.decode("utf-8"),                    *)
(* bytes.decode("latin-1") and os.path.basename.                           *)

EncodeCp(cp) ==
    IF cp < 128 THEN <<cp>>
    ELSE IF cp < 2048 THEN <<192 + (cp \div 64), 128 + (cp % 64)>>
    ELSE IF cp < 65536 THEN
        <<224 + (cp \div 4096), 128 + ((cp \div 64) % 64), 128 + (cp % 64)>>
    ELSE <<240 + (cp \div 262144), 128 + ((cp \div 4096) % 64),
           128 + ((cp \div 64) % 64), 128 + (cp % 64)>>

\* str.encode("utf-8")
RECURSIVE Utf8Encode(_)
Utf8Encode(str) ==
    IF Len(str) = 0 THEN <<>> ELSE EncodeCp(Head(str)) \o Utf8Encode(Tail(str))

IsCont(b, j) == j <= Len(b) /\ b[j] >= 128 /\ b[j] <= 191

\* the number of bytes of the well-formed UTF-8 sequence that starts at
\* b[j], or 0 when no well-formed sequence starts there (the strict decoder
\* then raises UnicodeDecodeError)
SeqLenAt(b, j) ==
    LET c == b[j]
        n2 == IF j + 1 <= Len(b) THEN b[j + 1] ELSE 0
    IN  IF c < 128 THEN 1
        ELSE IF c >= 194 /\ c <= 223 THEN (IF IsCont(b, j + 1) THEN 2 ELSE 0)
        ELSE IF c >= 224 /\ c <= 239 THEN
            (IF /\ IsCont(b, j + 1) /\ IsCont(b, j + 2)
                /\ (c = 224 => n2 >= 160)
                /\ (c = 237 => n2 <= 159)
             THEN 3 ELSE 0)
        ELSE IF c >= 240 /\ c <= 244 THEN
            (IF /\ IsCont(b, j + 1) /\ IsCont(b, j + 2) /\ IsCont(b, j + 3)
                /\ (c = 240 => n2 >= 144)
                /\ (c = 244 => n2 <= 143)
             THEN 4 ELSE 0)
        ELSE 0

DecodeCp(b, j, n) ==
    IF n = 1 THEN b[j]
    ELSE IF n = 2 THEN ((b[j] - 192) * 64) + (b[j + 1] - 128)
    ELSE IF n = 3 THEN
        ((b[j] - 224) * 4096) + ((b[j + 1] - 128) * 64) + (b[j + 2] - 128)
    ELSE ((b[j] - 240) * 262144) + ((b[j + 1] - 128) * 4096)
         + ((b[j + 2] - 128) * 64) + (b[j + 3] - 128)

\* bytes.decode("utf-8"): [ok |-> TRUE, str] or [ok |-> FALSE] for
\* UnicodeDecodeError
RECURSIVE Utf8DecodeFrom(_, _, _)
Utf8DecodeFrom(b, j, acc) ==
    IF j > Len(b) THEN [ok |-> TRUE, str |-> acc]
    ELSE LET n == SeqLenAt(b, j)
         IN  IF n = 0 THEN [ok |-> FALSE, str |-> <<>>]
             ELSE Utf8DecodeFrom(b, j + n, Append(acc, DecodeCp(b, j, n)))

Utf8Decode(b) == Utf8DecodeFrom(b, 1, <<>>)

\* bytes.decode("latin-1"): every byte is the code point of its value
Latin1Decode(b) == b

Slash == 47

\* os.path.basename: what follows the last "/"
RECURSIVE Basename(_)
Basename(path) ==
    IF \E j \in 1..Len(path) : path[j] = Slash
    THEN Basename(Tail(path))
    ELSE path

-----------------------------------------------------------------------------
(* Keys.  A key pair is named by a positive number; None is 0.  The public *)
(* key of private key k is k.  generate_keys makes 2048-bit pairs;         *)
(* a PEM file handed to load_private_key / load_public_key holds a pair of *)
(* any modulus size.                                                       *)

None == 0

\* key_size = 2048 of generate_keys, in bytes
GENERATED_KEY_BYTES == 256

\* pairs generate_keys can return
GeneratedKeys == {1, 2}

\* pairs found in PEM files: the generated ones (written by save_*_key),
\* a 4096-bit pair and a 1024-bit pair
PemKeys == {1, 2, 3, 4}

\* the modulus size of a key in bytes
KeyBytes(k) ==
    IF k \in GeneratedKeys THEN GENERATED_KEY_BYTES
    ELSE IF k = 3 THEN 2 * GENERATED_KEY_BYTES
    ELSE GENERATED_KEY_BYTES \div 2

-----------------------------------------------------------------------------
(* The block primitive: RSA with OAEP padding, SHA-256 for the hash and    *)
(* for MGF1, empty label (RSA_plain.encrypt / RSA_plain.decrypt).          *)
(*                                                                         *)
(* The encoded message has the layout of RFC 8017 7.1.1,                   *)
(*     EM = 00 || maskedSeed[hLen] || maskedDB[k - hLen - 1],              *)
(*     DB = lHash[hLen] || PS (zeros) || 01 || M,                          *)
(* so a message is at most k - 2 hLen - 2 bytes and a ciphertext is k      *)
(* bytes.  MGF1 and the RSA permutation are abstracted: the data block is  *)
(* masked with the seed byte, the whole encoded message with a byte of the *)
(* key, and the seed field carries a check byte over M, which stands for   *)
(* the redundancy by which OAEP rejects a ciphertext that was not made     *)
(* under the matching public key.                                          *)

\* digest_size of SHA-256
HASH_LEN == 32

\* every byte of the model's lHash
LHASH_BYTE == 227

Error == [ok |-> FALSE, data |-> <<>>]
Ok(bytes) == [ok |-> TRUE, data |-> bytes]

KeyMask(k) == (16 * k) + 5

\* the xor of m[lo..hi], folded by halves
RECURSIVE XorFold(_, _, _)
XorFold(m, lo, hi) ==
    IF lo > hi THEN 0
    ELSE IF lo = hi THEN m[lo]
    ELSE LET mid == (lo + hi) \div 2
         IN  XorTab[XorFold(m, lo, mid)][XorFold(m, mid + 1, hi)]

CheckByte(m) == XorTab[90][XorFold(m, 1, Len(m))]

\* public_key.encrypt(plaintext, OAEP) with OAEP seed byte r: Error is the
\* ValueError the library raises for a message too long for the key
OaepEncrypt(k, m, r) ==
    LET size == KeyBytes(k)
        room == (size - (2 * HASH_LEN)) - 2
    IN  IF Len(m) > room THEN Error
        ELSE LET db   == [j \in 1..HASH_LEN |-> LHASH_BYTE]
                           \o Zeros(room - Len(m)) \o <<1>> \o m
                 seed == <<r, CheckByte(m)>> \o [j \in 1..(HASH_LEN - 2) |-> r]
                 em   == <<0>> \o seed \o XorConst(db, r)
             IN  Ok(XorConst(em, KeyMask(k)))

\* the index of the first non-zero byte of db[lo..hi], or 0
RECURSIVE FirstNonZero(_, _, _)
FirstNonZero(db, lo, hi) ==
    IF lo > hi THEN 0
    ELSE IF lo = hi THEN (IF db[lo] = 0 THEN 0 ELSE lo)
    ELSE LET mid  == (lo + hi) \div 2
             left == FirstNonZero(db, lo, mid)
         IN  IF left # 0 THEN left ELSE FirstNonZero(db, mid + 1, hi)

\* the index of the first non-zero byte of db after the lHash, or 0
Separator(db, j) == FirstNonZero(db, j, Len(db))

\* What the padding check of private_key.decrypt finds in ciphertext c
\* under key k: wellformed says the encoded message has the OAEP layout,
\* intact that the check byte fits the message m
OaepOpen(k, c) ==
    LET size == KeyBytes(k)
        em   == XorConst(c, KeyMask(k))
        r    == em[2]
        db   == XorConst(SubSeq(em, HASH_LEN + 2, size), r)
        sep  == Separator(db, HASH_LEN + 1)
        m    == SubSeq(db, sep + 1, Len(db))
        wf   == /\ em[1] = 0
                /\ \A j \in 4..(HASH_LEN + 1) : em[j] = r
                /\ \A j \in 1..HASH_LEN : db[j] = LHASH_BYTE
                /\ sep > 0
                /\ db[sep] = 1
    IN  [wellformed |-> wf, intact |-> wf /\ em[3] = CheckByte(m),
         m |-> IF wf THEN m ELSE SubSeq(em, (2 * HASH_LEN) + 3, size)]

\* private_key.decrypt(ciphertext, OAEP): Error is the ValueError the
\* library raises when the ciphertext length is not the key size or the
\* padding check fails
OaepDecrypt(k, c) ==
    IF Len(c) # KeyBytes(k) THEN Error
    ELSE LET p == OaepOpen(k, c)
         IN  IF p.intact THEN Ok(p.m) ELSE Error

\* RSA_plain.encrypt under the instance's public key: Error is the
\* ValueError of an instance without a public key, or the library's
encrypt(pub, plaintext, r) ==
    IF pub = None THEN Error ELSE OaepEncrypt(pub, plaintext, r)

\* a block primitive without padding: whatever the key yields is returned
decrypt_raw(priv, ciphertext) ==
    IF Len(ciphertext) # KeyBytes(priv) THEN Error
    ELSE Ok(OaepOpen(priv, ciphertext).m)

\* a block primitive whose padding has no redundancy over the message
decrypt_malleable(priv, ciphertext) ==
    IF Len(ciphertext) # KeyBytes(priv) THEN Error
    ELSE LET p == OaepOpen(priv, ciphertext)
         IN  IF p.wellformed THEN Ok(p.m) ELSE Error

\* RSA_plain.decrypt under the instance's private key: Error is the
\* ValueError of an instance without a private key, or the library's
decrypt(priv, ciphertext) ==
    IF priv = None THEN Error ELSE OaepDecrypt(priv, ciphertext)

-----------------------------------------------------------------------------
(* Files.                                                                  *)

Absent == [exists |-> FALSE, readable |-> FALSE, data |-> <<>>]
File(bytes) == [exists |-> TRUE, readable |-> TRUE, data |-> bytes]

\* streams that are closed by a close() call at the end of the body
CloseAtEnd(streams, st) == IF st = "ok" THEN {} ELSE streams

\* The streams of "with open(..) as f, ..: body" that are still open when
\* control has left the statement; st tells how the body was left ("ok" at
\* its end, "return" by a return statement, else the exception raised).
\* The __exit__ of every stream the statement opened runs on each of these
\* ways out and closes it.
WithExit(streams, st) == {}

\* progress_callback(bytes_processed, file_size), call number n, for the
\* callback cb: callback 0 (and no callback) always returns, callback k > 0
\* raises in its k-th call
CallbackRaises(cb, n) == cb # 0 /\ n = cb

-----------------------------------------------------------------------------
(* RSA_plain.validate_rsaf_file                                            *)

NoMeta ==
    [valid |-> FALSE, raised |-> "none", version |-> 0, filename |-> <<>>,
     file_size |-> 0, block_count |-> 0, total_size |-> 0, open |-> {}]

\* open(filepath, "rb"): the exception it raises, or "none"
OpenRb(f) == IF f.exists /\ f.readable THEN "none" ELSE "IOError"

\* the header checks of validate_rsaf_file: length, magic, version
HeaderAcceptedNoVersion(header) ==
    /\ ~(Len(header) < FILE_HEADER_SIZE)
    /\ ~(SubSeq(header, 1, 4) # RSAF_MAGIC)

HeaderAccepted(header) ==
    /\ ~(Len(header) < FILE_HEADER_SIZE)
    /\ ~(SubSeq(header, 1, 4) # RSAF_MAGIC)
    /\ ~(Unpack(SubSeq(header, 5, 6)) # RSAF_VERSION)

\* a validator without the except clause
CaughtNothing(exc) == FALSE

\* except (IOError, struct.error): return None
Caught(exc) == exc \in {"IOError", "struct.error"}

\* the dict validate_rsaf_file returns, NoMeta for None; raised names an
\* exception that leaves the call, open the streams the call leaves open
validate_rsaf_file(f) ==
    IF OpenRb(f) # "none"
    THEN (IF Caught(OpenRb(f)) THEN NoMeta
          ELSE [NoMeta EXCEPT !.raised = OpenRb(f)])
    ELSE LET header == Read(f.data, 0, FILE_HEADER_SIZE)
             left   == WithExit({"f"}, "return")
         IN  IF ~HeaderAccepted(header) THEN [NoMeta EXCEPT !.open = left]
             ELSE LET filename_len   == Unpack(SubSeq(header, 7, 8))
                      filename_bytes == Read(f.data, FILE_HEADER_SIZE, filename_len)
                      utf8           == Utf8Decode(filename_bytes)
                  IN  [valid       |-> TRUE,
                       raised      |-> "none",
                       version     |-> Unpack(SubSeq(header, 5, 6)),
                       filename    |-> IF utf8.ok THEN utf8.str
                                       ELSE Latin1Decode(filename_bytes),
                       file_size   |-> Unpack(SubSeq(header, 9, 16)),
                       block_count |-> Unpack(SubSeq(header, 17, 20)),
                       total_size  |-> Len(f.data),
                       open        |-> left]

-----------------------------------------------------------------------------
(* RSA_plain.encrypt_file                                                  *)

\* os.urandom(MAX_ENCRYPT_PER_BLOCK), one value per seed
Urandom(seed) == [j \in 1..MAX_ENCRYPT_PER_BLOCK |-> (seed + (3 * j)) % 256]

\* the OAEP seed of the next block primitive call
NextSeed(r) == (r + 29) % 256

\* a block count that rounds down
BlockCountFloor(file_size) == file_size \div MAX_ENCRYPT_PER_BLOCK

\* block_count = (file_size + MAX - 1) // MAX
BlockCount(file_size) ==
    ((file_size + MAX_ENCRYPT_PER_BLOCK) - 1) \div MAX_ENCRYPT_PER_BLOCK

\* the header encrypt_file packs
Header(filename_bytes, file_size, block_count) ==
    RSAF_MAGIC \o Pack(RSAF_VERSION, 2) \o Pack(Len(filename_bytes), 2)
        \o Pack(file_size, 8) \o Pack(block_count, 4) \o Zeros(12)

\* the while loop of encrypt_file; the read offset of fin is
\* bytes_processed, cb is the progress callback
RECURSIVE EncLoop(_, _, _, _, _, _, _, _, _, _)
EncLoop(src, file_size, pub, iv, prev_ciphertext, bytes_processed, out, prog, r, cb) ==
    LET chunk == Read(src, bytes_processed, MAX_ENCRYPT_PER_BLOCK)
    IN  IF Len(chunk) = 0
        THEN [status |-> "ok", out |-> out, bytes |-> bytes_processed,
              progress |-> prog]
        ELSE LET x0    == IF bytes_processed = 0 THEN XorZip(chunk, iv)
                          ELSE XorZip(chunk, prev_ciphertext)
                 xored == IF Len(x0) < MAX_ENCRYPT_PER_BLOCK
                          THEN x0 \o Zeros(MAX_ENCRYPT_PER_BLOCK - Len(x0))
                          ELSE x0
                 encrypted == encrypt(pub, xored, r)
                 done  == bytes_processed + Len(chunk)
             IN  IF ~encrypted.ok
                 THEN [status |-> "CryptoError", out |-> out,
                       bytes |-> bytes_processed, progress |-> prog]
                 ELSE IF CallbackRaises(cb, Len(prog) + 1)
                 THEN [status |-> "CallbackError", out |-> out \o encrypted.data,
                       bytes |-> done,
                       progress |-> Append(prog, <<done, file_size>>)]
                 ELSE EncLoop(src, file_size, pub, iv, encrypted.data, done,
                              out \o encrypted.data,
                              Append(prog, <<done, file_size>>), NextSeed(r), cb)

\* What a call encrypt_file(src_path, dst_path, cb) does under public key
\* pub: status is "ok" or the exception raised, wrote says whether dst_path
\* was opened for writing, out is then its content when the call ends, and
\* open the streams the call leaves open.
encrypt_file(fsrc, src_path, pub, ivseed, r, cb) ==
    LET fail(st, wrote) ==
            [status |-> st, wrote |-> wrote, out |-> <<>>, bytes |-> 0,
             blocks |-> 0, progress |-> <<>>,
             open |-> IF wrote THEN WithExit({"fin", "fout"}, st) ELSE {}]
    IN  IF ~fsrc.exists THEN fail("FileNotFoundError", FALSE)
        ELSE IF pub = None THEN fail("KeyMissing", FALSE)
        ELSE
        LET filename     == Basename(src_path)
            file_size    == Len(fsrc.data)
            block_count  == BlockCount(file_size)
            iv           == Urandom(ivseed)
            iv_encrypted == encrypt(pub, iv, r)
        IN  IF ~iv_encrypted.ok THEN fail("CryptoError", FALSE)
            ELSE IF ~fsrc.readable THEN fail("PermissionError", FALSE)
            ELSE
            LET filename_bytes == Utf8Encode(filename)
            IN  IF Len(filename_bytes) > 65535 THEN fail("StructError", TRUE)
                ELSE
                LET header == Header(filename_bytes, file_size, block_count)
                    loop   == EncLoop(fsrc.data, file_size, pub, iv,
                                      iv_encrypted.data, 0,
                                      header \o filename_bytes \o iv_encrypted.data,
                                      <<>>, NextSeed(r), cb)
                IN  [status |-> loop.status, wrote |-> TRUE, out |-> loop.out,
                     bytes |-> loop.bytes, blocks |-> block_count,
                     progress |-> loop.progress,
                     open |-> WithExit({"fin", "fout"}, loop.status)]

-----------------------------------------------------------------------------
(* RSA_plain.decrypt_file                                                  *)

\* a decoder that never cuts the padding of the last chunk
TruncatedNever(xored, i, block_count, file_size) == xored

\* the removal of the padding: the last chunk is cut to file_size % MAX
\* bytes when that is not 0
Truncated(xored, i, block_count, file_size) ==
    IF i = block_count - 1 /\ file_size % MAX_ENCRYPT_PER_BLOCK # 0
    THEN SubSeq(xored, 1, Min(Len(xored), file_size % MAX_ENCRYPT_PER_BLOCK))
    ELSE xored

\* the for loop of decrypt_file from iteration i on; pos is the read offset
\* of fin, emitted the lengths of the chunks written so far, cb the
\* progress callback
RECURSIVE DecLoop(_, _, _, _, _, _, _, _, _, _, _, _, _)
DecLoop(src, file_size, block_count, priv, iv, prev_ciphertext, i, pos, bytes_processed, out, prog, emitted, cb) ==
    IF i >= block_count
    THEN [status |-> "ok", out |-> out, progress |-> prog, emitted |-> emitted]
    ELSE LET encrypted_block == Read(src, pos, ENCRYPTED_BLOCK_SIZE)
             decrypted       == decrypt(priv, encrypted_block)
         IN  IF ~decrypted.ok
             THEN [status |-> "CryptoError", out |-> out, progress |-> prog,
                   emitted |-> emitted]
             ELSE
             LET x0    == IF i = 0 THEN XorZip(decrypted.data, iv)
                          ELSE XorZip(decrypted.data, prev_ciphertext)
                 xored == Truncated(x0, i, block_count, file_size)
                 done  == bytes_processed + Len(xored)
             IN  IF CallbackRaises(cb, Len(prog) + 1)
                 THEN [status |-> "CallbackError", out |-> out \o xored,
                       progress |-> Append(prog, <<done, file_size>>),
                       emitted |-> Append(emitted, Len(xored))]
                 ELSE
                 DecLoop(src, file_size, block_count, priv, iv, encrypted_block,
                         i + 1, pos + Len(encrypted_block), done, out \o xored,
                         Append(prog, <<done, file_size>>),
                         Append(emitted, Len(xored)), cb)

\* What a call decrypt_file(src_path, dst_path, cb) does under private key
\* priv: status is "ok" or the exception raised, wrote says whether
\* dst_path was opened for writing, out is then its content when the call
\* ends, seek the offset fin.seek moved to before the seed block was read,
\* and open the streams the call leaves open.
decrypt_file(fsrc, priv, cb) ==
    LET fail(st, wrote, at, left) ==
            [status |-> st, wrote |-> wrote, out |-> <<>>, filename |-> <<>>,
             size |-> 0, progress |-> <<>>, emitted |-> <<>>, seek |-> at,
             open |-> left]
    IN  IF ~fsrc.exists THEN fail("FileNotFoundError", FALSE, 0, {})
        ELSE IF priv = None THEN fail("KeyMissing", FALSE, 0, {})
        ELSE
        LET metadata == validate_rsaf_file(fsrc)
        IN  IF metadata.raised # "none"
            THEN fail(metadata.raised, FALSE, 0, metadata.open)
            ELSE IF ~metadata.valid
            THEN fail("InvalidFormat", FALSE, 0, metadata.open)
            ELSE
            LET file_size         == metadata.file_size
                block_count       == metadata.block_count
                original_filename == metadata.filename
                start == FILE_HEADER_SIZE + Len(Utf8Encode(original_filename))
                iv_encrypted == Read(fsrc.data, start, ENCRYPTED_BLOCK_SIZE)
                iv           == decrypt(priv, iv_encrypted)
            IN  IF ~iv.ok
                THEN fail("CryptoError", TRUE, start,
                          metadata.open \cup WithExit({"fin", "fout"}, "CryptoError"))
                ELSE
                LET loop == DecLoop(fsrc.data, file_size, block_count, priv,
                                    iv.data, iv_encrypted, 0,
                                    start + Len(iv_encrypted), 0, <<>>, <<>>,
                                    <<>>, cb)
                IN  [status   |-> loop.status, wrote |-> TRUE, out |-> loop.out,
                     filename |-> original_filename, size |-> file_size,
                     progress |-> loop.progress, emitted |-> loop.emitted,
                     seek     |-> start,
                     open     |-> metadata.open
                                      \cup WithExit({"fin", "fout"}, loop.status)]

-----------------------------------------------------------------------------
(* The state machine.                                                      *)

\* "d/" followed by a name with a non-ASCII letter, and a second source
SrcPathA == <<100, 47, 114, 233, 46, 116>>
SrcPathB == <<100, 47, 98>>
SrcPaths == {SrcPathA, SrcPathB}
\* where the caller has encrypt_file write and decrypt_file read
EncPath == <<99, 47, 120, 46, 114, 115, 97>>
\* where the caller has decrypt_file write
DecPath == <<111, 47, 121>>
\* a file the process may not read
LockedPath == <<99, 47, 108>>
Paths == SrcPaths \cup {EncPath, DecPath, LockedPath}

\* the plaintext lengths: the multiples of the chunk size up to MaxChunks
\* chunks, and one byte more and one byte less
Lens ==
    {n \in 0..(MaxChunks * MAX_ENCRYPT_PER_BLOCK) :
        n % MAX_ENCRYPT_PER_BLOCK \in {0, 1, MAX_ENCRYPT_PER_BLOCK - 1}}

Plain(n) == [j \in 1..n |-> ((37 * j) + 11) % 256]

IvSeeds == {17, 200}
OaepSeeds == {73}

NoRet ==
    [op |-> "none", status |-> "ok", src |-> <<>>, bytes |-> 0, blocks |-> 0,
     filename |-> <<>>, size |-> 0, progress |-> <<>>, emitted |-> <<>>,
     meta |-> NoMeta, dst |-> <<>>, wrote |-> FALSE, seek |-> 0, open |-> {},
     name |-> <<>>]

NoPristine == [set |-> FALSE, data |-> <<>>, key |-> None, src |-> <<>>]
NoTamper == [kind |-> "none", block |-> 0, byte |-> 0, bit |-> 0]

\* App.__init__: no text was encrypted, no file is selected
NoApp ==
    [current_ciphertext |-> [set |-> FALSE, data |-> <<>>],
     selected_file |-> <<>>]

LockedFile ==
    [exists |-> TRUE, readable |-> FALSE,
     data |-> Header(<<>>, 0, 0) \o Zeros(ENCRYPTED_BLOCK_SIZE)]

\* RSA_plain.__init__, and a file system holding one source file
Init ==
    /\ private_key = None
    /\ public_key = None
    /\ \E sp \in SrcPaths, n \in Lens :
          fs = [p \in Paths |->
                  IF p = sp THEN File(Plain(n))
                  ELSE IF p = LockedPath THEN LockedFile
                  ELSE Absent]
    /\ pristine = NoPristine
    /\ tamper = NoTamper
    /\ ret = NoRet
    /\ app = NoApp

\* a call that opens dst_path before it checks anything
WrittenOnEntry(files, dst, res) == [files EXCEPT ![dst] = File(res.out)]

\* The file system after a call whose result is res and whose dst_path is
\* dst: the file is created or truncated where the call reaches its
\* open(dst_path, "wb"), and holds what the call wrote to it.
Written(files, dst, res) ==
    IF res.wrote THEN [files EXCEPT ![dst] = File(res.out)] ELSE files

\* RSA_plain.generate_keys
GenerateKeys ==
    \E k \in GeneratedKeys :
        /\ private_key' = k
        /\ public_key' = k
        /\ ret' = [NoRet EXCEPT !.op = "generate_keys"]
        /\ UNCHANGED <<app, fs, pristine, tamper>>

\* RSA_plain.load_private_key on the PEM file of pair k
LoadPrivateKey ==
    \E k \in PemKeys :
        /\ private_key' = k
        /\ public_key' = k
        /\ ret' = [NoRet EXCEPT !.op = "load_private_key"]
        /\ UNCHANGED <<app, fs, pristine, tamper>>

\* RSA_plain.load_public_key on the PEM file of the public key of pair k
LoadPublicKey ==
    \E k \in PemKeys :
        /\ public_key' = k
        /\ ret' = [NoRet EXCEPT !.op = "load_public_key"]
        /\ UNCHANGED <<app, private_key, fs, pristine, tamper>>

\* RSA_plain.encrypt_file(sp, EncPath, cb).  The call is bound with \E
\* over a one-element set so that it is evaluated once.
EncryptFileWith(sp, ivseed, r, cb) ==
        \E res \in {encrypt_file(fs[sp], sp, public_key, ivseed, r, cb)} :
            /\ fs' = Written(fs, EncPath, res)
            /\ pristine' =
                  IF res.status = "ok"
                  THEN [set |-> TRUE, data |-> res.out, key |-> public_key,
                        src |-> sp]
                  ELSE IF res.wrote THEN NoPristine ELSE pristine
            /\ tamper' = IF res.wrote THEN NoTamper ELSE tamper
            /\ ret' = [NoRet EXCEPT !.op = "encrypt_file",
                                    !.status = res.status,
                                    !.src = sp,
                                    !.dst = EncPath,
                                    !.wrote = res.wrote,
                                    !.open = res.open,
                                    !.bytes = res.bytes,
                                    !.blocks = res.blocks,
                                    !.progress = res.progress]
            /\ UNCHANGED <<app, private_key, public_key>>

\* encrypt_file of a source file, with a callback that returns
EncryptFile ==
    \E sp \in SrcPaths, ivseed \in IvSeeds, r \in OaepSeeds :
        EncryptFileWith(sp, ivseed, r, 0)

\* RSA_plain.decrypt_file(sp, DecPath, cb)
DecryptFileWith(sp, cb) ==
    \E res \in {decrypt_file(fs[sp], private_key, cb)} :
        /\ fs' = Written(fs, DecPath, res)
        /\ ret' = [NoRet EXCEPT !.op = "decrypt_file",
                                !.status = res.status,
                                !.src = sp,
                                !.dst = DecPath,
                                !.wrote = res.wrote,
                                !.seek = res.seek,
                                !.open = res.open,
                                !.filename = res.filename,
                                !.size = res.size,
                                !.progress = res.progress,
                                !.emitted = res.emitted]
        /\ UNCHANGED <<app, private_key, public_key, pristine, tamper>>

\* decrypt_file of the stored encrypted file, with a callback that returns
DecryptFile == DecryptFileWith(EncPath, 0)

\* RSA_plain.validate_rsaf_file(p)
ValidateRsafFile ==
    \E p \in Paths :
        /\ \E meta \in {validate_rsaf_file(fs[p])} :
              ret' = [NoRet EXCEPT !.op = "validate_rsaf_file",
                                   !.status = IF meta.raised = "none" THEN "ok"
                                              ELSE meta.raised,
                                   !.src = p,
                                   !.open = meta.open,
                                   !.meta = meta]
        /\ UNCHANGED <<app, private_key, public_key, fs, pristine, tamper>>

-----------------------------------------------------------------------------
(* The environment: what another process does to the stored encrypted file *)
(* between the call that wrote it and the call that reads it.  Each step   *)
(* edits the file encrypt_file wrote, once.                                *)

Untouched == pristine.set /\ tamper.kind = "none"

\* offset of ciphertext block i of the stored file (block 0 holds chunk 0;
\* the seed block precedes it)
BlockOffset(meta, key, i) ==
    FILE_HEADER_SIZE + Len(Utf8Encode(meta.filename)) + ((i + 1) * KeyBytes(key))

FlipOffsets == {0, 100, MAX_ENCRYPT_PER_BLOCK - 1, MAX_ENCRYPT_PER_BLOCK,
                ENCRYPTED_BLOCK_SIZE - 1}
FlipBits == {0, 7}

RECURSIVE Pow2(_)
Pow2(n) == IF n = 0 THEN 1 ELSE 2 * Pow2(n - 1)

Edited(data) ==
    /\ fs' = [fs EXCEPT ![EncPath] = File(data)]
    /\ ret' = NoRet
    /\ UNCHANGED <<app, private_key, public_key, pristine>>

\* one bit of one stored chunk block is flipped
FlipBit ==
    /\ Untouched
    /\ \E meta \in {validate_rsaf_file(fs[EncPath])} :
       \E i \in 0..(meta.block_count - 1), off \in FlipOffsets, bit \in FlipBits :
          LET at == BlockOffset(meta, pristine.key, i) + off + 1
              d  == fs[EncPath].data
          IN  /\ off < KeyBytes(pristine.key)
              /\ Edited([d EXCEPT ![at] = XorTab[d[at]][Pow2(bit)]])
              /\ tamper' = [kind |-> "flip", block |-> i, byte |-> off,
                            bit |-> bit]

HeaderSizes == {0, 1, MAX_ENCRYPT_PER_BLOCK, MAX_ENCRYPT_PER_BLOCK + 1,
                2 * MAX_ENCRYPT_PER_BLOCK}
HeaderCounts == {0, 1, 2}

\* the fileSize and blockCount fields of the header are overwritten
RewriteHeader ==
    /\ Untouched
    /\ \E size \in HeaderSizes, count \in HeaderCounts :
          LET d == fs[EncPath].data
              e == SubSeq(d, 1, 8) \o Pack(size, 8) \o Pack(count, 4)
                       \o SubSeq(d, 21, Len(d))
          IN  /\ e # d
              /\ Edited(e)
              /\ tamper' = [kind |-> "header", block |-> count, byte |-> size,
                            bit |-> 0]

\* a byte that starts a three-byte UTF-8 sequence, 0xE9: "e" with an acute
\* in Latin-1
LATIN1_BYTE == 233

\* one byte of the stored filename is overwritten, as in a file written by
\* a program that stores filenames in Latin-1
CorruptFilename ==
    /\ Untouched
    /\ \E at \in 1..Unpack(SubSeq(fs[EncPath].data, 7, 8)) :
          LET d == fs[EncPath].data
          IN  /\ d[FILE_HEADER_SIZE + at] # LATIN1_BYTE
              /\ Edited([d EXCEPT ![FILE_HEADER_SIZE + at] = LATIN1_BYTE])
              /\ tamper' = [kind |-> "filename", block |-> 0, byte |-> at,
                            bit |-> 0]

\* one byte of the magic or of the version field is changed
MutateMagicVersion ==
    /\ Untouched
    /\ \E at \in 1..6 :
          LET d == fs[EncPath].data
          IN  /\ Edited([d EXCEPT ![at] = (d[at] + 1) % 256])
              /\ tamper' = [kind |-> "magic", block |-> 0, byte |-> at,
                            bit |-> 0]

\* the file is cut: inside the header, inside the filename, inside a block
Truncate ==
    /\ Untouched
    /\ \E meta \in {validate_rsaf_file(fs[EncPath])} :
       LET d     == fs[EncPath].data
           fnlen == Len(Utf8Encode(meta.filename))
       IN  \E n \in {0, FILE_HEADER_SIZE - 1, FILE_HEADER_SIZE,
                     (FILE_HEADER_SIZE + fnlen) - 1, FILE_HEADER_SIZE + fnlen,
                     Len(d) - 1} :
              /\ Edited(SubSeq(d, 1, n))
              /\ tamper' = [kind |-> "truncate", block |-> 0, byte |-> n,
                            bit |-> 0]

\* generate_keys on an instance that has no keys yet
GenerateKeysOnce == private_key = None /\ GenerateKeys

\* encrypt_file when nothing is stored at EncPath yet
EncryptFileOnce == ~fs[EncPath].exists /\ EncryptFile

\* A caller that generates and loads key pairs and encrypts and decrypts
\* in any order.
Next ==
    \/ GenerateKeys
    \/ LoadPrivateKey
    \/ EncryptFile
    \/ DecryptFile

Spec == Init /\ [][Next]_vars

\* A caller that generates one key pair and encrypts one file, which is
\* then edited behind the program's back and decrypted.
NextTamper ==
    \/ GenerateKeysOnce
    \/ EncryptFileOnce
    \/ FlipBit
    \/ RewriteHeader
    \/ CorruptFilename
    \/ DecryptFile

SpecTamper == Init /\ [][NextTamper]_vars

\* A caller that generates one key pair and encrypts one file, and probes
\* the files it finds, damaged ones among them, with validate_rsaf_file.
NextProbe ==
    \/ GenerateKeysOnce
    \/ EncryptFileOnce
    \/ MutateMagicVersion
    \/ Truncate
    \/ ValidateRsafFile

SpecProbe == Init /\ [][NextProbe]_vars

\* what an earlier run of some program left at a destination path
StaleBytes == <<115, 116, 97, 108, 101>>

\* the plaintext lengths of the caller below: none, one and two chunks
CallLens == {0, MAX_ENCRYPT_PER_BLOCK, MAX_ENCRYPT_PER_BLOCK + 1}

\* progress callbacks: one that returns, and ones that raise in their first
\* and in their second call
Callbacks == {0, 1, 2}

\* RSA_plain.__init__, and a file system holding one source file and,
\* possibly, files at the two destination paths
InitCalls ==
    /\ private_key = None
    /\ public_key = None
    /\ \E n \in CallLens, stale \in BOOLEAN :
          fs = [p \in Paths |->
                  IF p = SrcPathA THEN File(Plain(n))
                  ELSE IF p = LockedPath THEN LockedFile
                  ELSE IF stale /\ p \in {EncPath, DecPath} THEN File(StaleBytes)
                  ELSE Absent]
    /\ pristine = NoPristine
    /\ tamper = NoTamper
    /\ ret = NoRet
    /\ app = NoApp

\* load_public_key on an instance that has no keys yet
LoadPublicKeyOnly == private_key = None /\ public_key = None /\ LoadPublicKey

\* encrypt_file of any path the caller comes up with, a missing one and an
\* unreadable one among them, with any callback
EncryptFileCall ==
    \E sp \in SrcPaths \cup {LockedPath}, r \in OaepSeeds, cb \in Callbacks :
        EncryptFileWith(sp, 17, r, cb)

\* decrypt_file of any path the caller comes up with, with any callback
DecryptFileCall ==
    \E sp \in Paths \ {DecPath}, cb \in Callbacks : DecryptFileWith(sp, cb)

\* A caller of the library that sets the instance up once, with a generated
\* pair or with a public key alone, and calls encrypt_file, decrypt_file
\* and validate_rsaf_file with whatever paths and callbacks it has.
NextCalls ==
    \/ GenerateKeysOnce
    \/ LoadPublicKeyOnly
    \/ EncryptFileCall
    \/ DecryptFileCall
    \/ ValidateRsafFile

SpecCalls == InitCalls /\ [][NextCalls]_vars

-----------------------------------------------------------------------------
(* The window of src/main.py: the callbacks that name and store encrypted  *)
(* artifacts, and the one that loads keys.                                 *)

\* one hexadecimal digit, as a character
HexDigit(n) == IF n < 10 THEN 48 + n ELSE 87 + n

\* bytes.hex(): two lower-case digits per byte
RECURSIVE Hex(_)
Hex(b) ==
    IF Len(b) = 0 THEN <<>>
    ELSE <<HexDigit(Head(b) \div 16), HexDigit(Head(b) % 16)>> \o Hex(Tail(b))

\* the extensions ".bin" and ".rsa"
BinExt == <<46, 98, 105, 110>>
RsaExt == <<46, 114, 115, 97>>

\* os.path.join(dir_path, filename)
Join(dir_path, filename) == dir_path \o <<Slash>> \o filename

\* RSA_plain.get_ciphertext_filename
get_ciphertext_filename(ciphertext_bytes) ==
    Hex(SubSeq(ciphertext_bytes, 1, Min(10, Len(ciphertext_bytes)))) \o RsaExt

\* RSA_plain.save_ciphertext: the name it returns and the file it writes
save_ciphertext(ciphertext, dir_path) ==
    LET filename == Hex(SubSeq(ciphertext, 1, Min(10, Len(ciphertext)))) \o BinExt
    IN  [filename |-> filename, filepath |-> Join(dir_path, filename),
         data |-> ciphertext]

\* the file system after a file was written at path p
Put(files, p, f) ==
    [q \in (DOMAIN files) \cup {p} |-> IF q = p THEN f ELSE files[q]]

\* os.path.join(self.app_dir, "ciphertexts"), here "a/c"
CiphertextDir == <<97, 47, 99>>

\* what the user types into the plaintext field: "hi" and "e" with an acute
Texts == {<<104, 105>>, <<233>>}

\* App.encrypt_text
AppEncryptText ==
    \E text \in Texts, r \in OaepSeeds :
        \E ciphertext \in {encrypt(public_key, Utf8Encode(text), r)} :
            /\ app' = IF ciphertext.ok
                      THEN [app EXCEPT !.current_ciphertext =
                                [set |-> TRUE, data |-> ciphertext.data]]
                      ELSE app
            /\ ret' = [NoRet EXCEPT !.op = "App.encrypt_text",
                                    !.status = IF ciphertext.ok THEN "ok"
                                               ELSE "enc-failed"]
            /\ UNCHANGED <<private_key, public_key, fs, pristine, tamper>>

\* App.save_ciphertext_bin
AppSaveCiphertextBin ==
    /\ IF ~app.current_ciphertext.set
       THEN /\ fs' = fs
            /\ ret' = [NoRet EXCEPT !.op = "App.save_ciphertext_bin",
                                    !.status = "no-ciphertext"]
       ELSE \E saved \in {save_ciphertext(app.current_ciphertext.data, CiphertextDir)} :
            /\ fs' = Put(fs, saved.filepath, File(saved.data))
            /\ ret' = [NoRet EXCEPT !.op = "App.save_ciphertext_bin",
                                    !.dst = saved.filepath,
                                    !.wrote = TRUE,
                                    !.name = saved.filename]
    /\ UNCHANGED <<private_key, public_key, pristine, tamper, app>>

\* App.select_source_file: the dialog returns a file that exists
AppSelectSourceFile ==
    \E filepath \in SrcPaths :
        /\ fs[filepath].exists
        /\ app' = [app EXCEPT !.selected_file = filepath]
        /\ ret' = [NoRet EXCEPT !.op = "App.select_source_file"]
        /\ UNCHANGED <<private_key, public_key, fs, pristine, tamper>>

\* App.encrypt_file
AppEncryptFile ==
    /\ IF app.selected_file = <<>>
       THEN /\ fs' = fs
            /\ ret' = [NoRet EXCEPT !.op = "App.encrypt_file",
                                    !.status = "select-file-first"]
       ELSE \E r \in OaepSeeds, ivseed \in IvSeeds :
            LET src          == app.selected_file
                sample       == Read(fs[src].data, 0, 10)
                dst_filename == get_ciphertext_filename(sample) \o RsaExt
                dst_path     == Join(CiphertextDir, dst_filename)
            IN  \E res \in {encrypt_file(fs[src], src, public_key, ivseed, r, 0)} :
                /\ fs' = IF res.wrote THEN Put(fs, dst_path, File(res.out))
                         ELSE fs
                /\ ret' = [NoRet EXCEPT !.op = "App.encrypt_file",
                                        !.status = res.status,
                                        !.src = src,
                                        !.dst = dst_path,
                                        !.wrote = res.wrote,
                                        !.open = res.open,
                                        !.bytes = res.bytes,
                                        !.blocks = res.blocks,
                                        !.progress = res.progress,
                                        !.name = dst_filename]
    /\ UNCHANGED <<private_key, public_key, pristine, tamper, app>>

\* The user of the window: generates a pair, encrypts texts and saves the
\* ciphertexts, selects a file and encrypts it.
NextApp ==
    \/ GenerateKeysOnce
    \/ AppEncryptText
    \/ AppSaveCiphertextBin
    \/ AppSelectSourceFile
    \/ AppEncryptFile

SpecApp == Init /\ [][NextApp]_vars

\* App.load_keys: private_key.pem of the application directory holds pair
\* priv_pem and public_key.pem the public key of pair pub_pem, None for a
\* file that is not there.  load_private_key is tried first, and
\* load_public_key when it raised FileNotFoundError.
AppLoadKeys ==
    \E priv_pem \in PemKeys \cup {None}, pub_pem \in PemKeys \cup {None} :
        /\ IF priv_pem # None
           THEN /\ private_key' = priv_pem
                /\ public_key' = priv_pem
                /\ ret' = [NoRet EXCEPT !.op = "App.load_keys",
                                        !.status = "keys-loaded"]
           ELSE IF pub_pem # None
           THEN /\ public_key' = pub_pem
                /\ private_key' = private_key
                /\ ret' = [NoRet EXCEPT !.op = "App.load_keys",
                                        !.status = "pub-loaded"]
           ELSE /\ UNCHANGED <<private_key, public_key>>
                /\ ret' = [NoRet EXCEPT !.op = "App.load_keys",
                                        !.status = "no-keys"]
        /\ UNCHANGED <<fs, pristine, tamper, app>>

\* Any sequence of key operations on one instance: the three methods of
\* RSA_plain, and the load_keys callback of the window.
NextKeys ==
    \/ GenerateKeys
    \/ LoadPrivateKey
    \/ LoadPublicKey
    \/ AppLoadKeys

SpecKeys == Init /\ [][NextKeys]_vars

-----------------------------------------------------------------------------
(* Vocabulary of the properties.                                           *)

\* the stored file is the one encrypt_file wrote and the instance holds
\* the private key of the pair it was encrypted under
Matching == Untouched /\ private_key # None /\ private_key = pristine.key

Decrypted == ret.op = "decrypt_file"
Encrypted == ret.op = "encrypt_file" /\ ret.status = "ok"
Validated == ret.op = "validate_rsaf_file"

\* header fields of a stored file, read straight from its bytes
FilenameLengthField(d) == d[7] + (256 * d[8])
FileSizeField(d) == d[9] + (256 * (d[10] + (256 * d[11])))
BlockCountField(d) == d[17] + (256 * d[18])

\* the least k with k * d >= n
Ceil(n, d) == CHOOSE k \in 0..n : k * d >= n /\ (k = 0 \/ (k - 1) * d < n)

RECURSIVE SumTo(_, _)
SumTo(lens, i) == IF i = 0 THEN 0 ELSE lens[i] + SumTo(lens, i - 1)

\* the bytes emitted for chunk i (from 0), given the lengths emitted
ChunkOf(out, lens, i) == SubSeq(out, SumTo(lens, i) + 1, SumTo(lens, i + 1))

NonDecreasing(prog) ==
    \A j \in 1..(Len(prog) - 1) : prog[j][1] <= prog[j + 1][1]

-----------------------------------------------------------------------------
(* C1 - C10                                                                *)

\* C1 (round trip): when decrypt_file is run on the file encrypt_file wrote,
\* under the private key of the pair it was encrypted with, the call
\* succeeds, the file it writes holds exactly the plaintext, and the filename
\* it returns is the basename of the source path.
C1_RoundTrip ==
    (Decrypted /\ Matching) =>
        /\ ret.status = "ok"
        /\ fs[DecPath] = File(fs[pristine.src].data)
        /\ ret.filename = Basename(pristine.src)

\* C2 (wrong-key rejection): decrypt_file under a private key that is not
\* the one of the public key the file was encrypted with ends in the
\* decryption error, raised at the seed block: no chunk is emitted, no
\* progress is reported, nothing is written, and it is never a success.
C2_WrongKeyRejected ==
    (Decrypted /\ Untouched /\ private_key # None /\ private_key # pristine.key) =>
        /\ ret.status = "CryptoError"
        /\ ret.emitted = <<>>
        /\ ret.progress = <<>>
        /\ fs[DecPath] = File(<<>>)

C2_Witness ==
    /\ Decrypted /\ Untouched
    /\ private_key # None /\ private_key # pristine.key
    /\ KeyBytes(private_key) = KeyBytes(pristine.key)
    /\ ret.status = "CryptoError"

\* C3 (integrity check): decrypt_file never returns success with an output
\* whose length differs from the fileSize of the header.
C3_IntegrityChecked ==
    (Decrypted /\ ret.status = "ok") => Len(fs[DecPath].data) = ret.size

\* C4 (header rejection): validate_rsaf_file returns None and does not
\* raise for a file that is missing, unreadable, shorter than 32 bytes,
\* without the magic RSAF at its start, or with a version field other
\* than 1.
C4_HeaderRejected ==
    Validated =>
        \A f \in {fs[ret.src]} :
            (\/ ~f.exists
             \/ ~f.readable
             \/ Len(f.data) < FILE_HEADER_SIZE
             \/ SubSeq(f.data, 1, 4) # RSAF_MAGIC
             \/ <<f.data[5], f.data[6]>> # <<RSAF_VERSION, 0>>)
            => (ret.status = "ok" /\ ret.meta = NoMeta)

C4_Witness ==
    /\ Validated
    /\ tamper.kind = "magic" /\ tamper.byte >= 5
    /\ ret.src = EncPath
    /\ ret.meta = NoMeta

\* C5 (filename past end of file): validate_rsaf_file returns None when the
\* filenameLength of the header exceeds the bytes that follow the header.
C5_FilenamePastEofRejected ==
    Validated =>
        \A f \in {fs[ret.src]} :
            (/\ f.exists /\ f.readable
             /\ HeaderAccepted(Read(f.data, 0, FILE_HEADER_SIZE))
             /\ FilenameLengthField(f.data) > Len(f.data) - FILE_HEADER_SIZE)
            => ret.meta = NoMeta

\* C6 as stated (tamper sensitivity): after a single bit of stored block
\* C_i, i < blockCount - 1, is flipped, decrypt_file recovers for chunk i a
\* plaintext of the same length that differs from the untampered one, and
\* for chunk i + 1 the same plaintext as the untampered decryption.
C6_TamperAsStated ==
    (Decrypted /\ tamper.kind = "flip"
        /\ private_key = pristine.key
        /\ tamper.block < BlockCountField(pristine.data) - 1) =>
        \A base \in {decrypt_file(File(pristine.data), private_key, 0)} :
            LET i == tamper.block
                got == fs[DecPath].data
            IN  /\ Len(ret.emitted) >= i + 2
                /\ ret.emitted[i + 1] = base.emitted[i + 1]
                /\ ChunkOf(got, ret.emitted, i) # ChunkOf(base.out, base.emitted, i)
                /\ ChunkOf(got, ret.emitted, i + 1)
                       = ChunkOf(base.out, base.emitted, i + 1)

\* C6 as amended: after a single bit of stored block C_i, i < blockCount - 1,
\* is flipped, decrypt_file ends in the decryption error when it reaches
\* block i: the chunks before i are written as in the untampered
\* decryption, and neither chunk i nor chunk i + 1 is emitted.
C6_TamperStopsAtBlock ==
    (Decrypted /\ tamper.kind = "flip"
        /\ private_key = pristine.key
        /\ tamper.block < BlockCountField(pristine.data) - 1) =>
        \A base \in {decrypt_file(File(pristine.data), private_key, 0)} :
            /\ ret.status = "CryptoError"
            /\ Len(ret.emitted) = tamper.block
            /\ ret.emitted = SubSeq(base.emitted, 1, tamper.block)
            /\ fs[DecPath] =
                  File(SubSeq(base.out, 1, SumTo(base.emitted, tamper.block)))

C6_Witness ==
    /\ Decrypted /\ tamper.kind = "flip"
    /\ private_key = pristine.key
    /\ tamper.block < BlockCountField(pristine.data) - 1
    /\ tamper.byte < MAX_ENCRYPT_PER_BLOCK
    /\ ret.status = "CryptoError"

\* C7 (progress): in a completed encrypt_file or decrypt_file the
\* bytesProcessed values reported are non-decreasing, every total is the
\* fileSize (of the source, of the header), and the last bytesProcessed is
\* the fileSize.
C7_Progress ==
    /\ Encrypted =>
          /\ NonDecreasing(ret.progress)
          /\ \A j \in 1..Len(ret.progress) :
                ret.progress[j][2] = Len(fs[ret.src].data)
          /\ Len(ret.progress) > 0 =>
                ret.progress[Len(ret.progress)][1] = Len(fs[ret.src].data)
    /\ (Decrypted /\ ret.status = "ok") =>
          /\ NonDecreasing(ret.progress)
          /\ \A j \in 1..Len(ret.progress) : ret.progress[j][2] = ret.size
          /\ Len(ret.progress) > 0 =>
                ret.progress[Len(ret.progress)][1] = ret.size

\* C8 (layout): the file a completed encrypt_file wrote has length
\* 32 + filenameLength + (blockCount + 1) * encryptedBlockSize, with
\* filenameLength and blockCount as stored in its header and
\* encryptedBlockSize the ciphertext size of the key it was written under.
C8_Layout ==
    Encrypted =>
        \A d \in {fs[EncPath].data} :
            /\ Len(d) >= FILE_HEADER_SIZE
            /\ Len(d) = FILE_HEADER_SIZE + FilenameLengthField(d)
                           + ((BlockCountField(d) + 1) * KeyBytes(public_key))

C8_Witness ==
    /\ Encrypted
    /\ Len(fs[ret.src].data) > MAX_ENCRYPT_PER_BLOCK
    /\ BlockCountField(fs[EncPath].data) >= 2

\* C9 (empty file): encrypt_file on a source of length 0 writes a header
\* with fileSize 0 and blockCount 0, the filename and the seed block and
\* nothing else, and decrypt_file on that output, under the matching
\* private key, succeeds and writes a file of length 0.
C9_EmptyFile ==
    /\ (Encrypted /\ Len(fs[ret.src].data) = 0) =>
          \A d \in {fs[EncPath].data} :
              /\ FileSizeField(d) = 0
              /\ BlockCountField(d) = 0
              /\ ret.blocks = 0
              /\ Len(d) = FILE_HEADER_SIZE + Len(Utf8Encode(Basename(ret.src)))
                             + KeyBytes(public_key)
    /\ (Decrypted /\ Matching /\ Len(fs[pristine.src].data) = 0) =>
          /\ ret.status = "ok"
          /\ fs[DecPath] = File(<<>>)

\* C10 (final-chunk truncation): the blockCount encrypt_file stores is
\* ceil(fileSize / maxChunkSize), 2 for a source of maxChunkSize + 1 bytes,
\* and every chunk decrypt_file emits has maxChunkSize bytes, except chunk
\* blockCount - 1 when fileSize is no multiple of maxChunkSize, which has
\* fileSize mod maxChunkSize bytes.
C10_FinalChunk ==
    /\ Encrypted =>
          \A d \in {fs[EncPath].data} :
              /\ FileSizeField(d) = Len(fs[ret.src].data)
              /\ BlockCountField(d) = Ceil(FileSizeField(d), MAX_ENCRYPT_PER_BLOCK)
              /\ (FileSizeField(d) = MAX_ENCRYPT_PER_BLOCK + 1
                     => BlockCountField(d) = 2)
    /\ (Decrypted /\ Untouched) =>
          \A d \in {pristine.data} :
              \A i \in 1..Len(ret.emitted) :
                  ret.emitted[i] =
                      IF /\ i = BlockCountField(d)
                         /\ FileSizeField(d) % MAX_ENCRYPT_PER_BLOCK # 0
                      THEN FileSizeField(d) % MAX_ENCRYPT_PER_BLOCK
                      ELSE MAX_ENCRYPT_PER_BLOCK

C10_Witness ==
    /\ Decrypted /\ Untouched
    /\ ret.status = "ok"
    /\ ret.size = MAX_ENCRYPT_PER_BLOCK + 1
    /\ ret.emitted = <<MAX_ENCRYPT_PER_BLOCK, 1>>

-----------------------------------------------------------------------------
(* C11 - C16                                                               *)

EncryptCalled == ret.op = "encrypt_file"

\* C11 (precondition failures): encrypt_file fails with NotFound when the
\* source path does not exist and with KeyMissing when it exists and no
\* public key is set; decrypt_file fails with NotFound when the source is
\* missing, with KeyMissing when it exists and no private key is set (also
\* when a public key alone was loaded), and with InvalidFormat when
\* validate_rsaf_file returns None for it; none of these calls succeeds.
C11_Preconditions ==
    /\ EncryptCalled =>
          /\ ~fs[ret.src].exists => ret.status = "FileNotFoundError"
          /\ (fs[ret.src].exists /\ public_key = None) => ret.status = "KeyMissing"
    /\ Decrypted =>
          /\ ~fs[ret.src].exists => ret.status = "FileNotFoundError"
          /\ (fs[ret.src].exists /\ private_key = None) => ret.status = "KeyMissing"
          /\ (fs[ret.src].exists /\ private_key # None
                 /\ ~validate_rsaf_file(fs[ret.src]).valid)
                => ret.status = "InvalidFormat"

C11_Witness ==
    /\ Decrypted
    /\ fs[ret.src].exists
    /\ private_key = None /\ public_key # None
    /\ ret.status = "KeyMissing"

Payload(d) == Read(d, FILE_HEADER_SIZE + FilenameLengthField(d), 10)

\* C13 (derived identifier): the name under which an encrypted artifact is
\* stored is the hexadecimal encoding of the first 10 bytes of the
\* ciphertext stored under it, followed by an extension: for a text
\* ciphertext saved by save_ciphertext_bin, and for the file that
\* App.encrypt_file has encrypt_file write, whether its ciphertext is taken
\* to start at the payload or at the first byte of the file.
C13_DerivedIdentifier ==
    /\ (ret.op = "App.save_ciphertext_bin" /\ ret.status = "ok") =>
          /\ Len(ret.name) > 20
          /\ SubSeq(ret.name, 1, 20) = Hex(Read(fs[ret.dst].data, 0, 10))
    /\ (ret.op = "App.encrypt_file" /\ ret.status = "ok") =>
          /\ Len(ret.name) > 20
          /\ \/ SubSeq(ret.name, 1, 20) = Hex(Payload(fs[ret.dst].data))
             \/ SubSeq(ret.name, 1, 20) = Hex(Read(fs[ret.dst].data, 0, 10))

\* the half of C13 about saved text ciphertexts
C13_SavedText ==
    (ret.op = "App.save_ciphertext_bin" /\ ret.status = "ok") =>
        ret.name = Hex(Read(fs[ret.dst].data, 0, 10)) \o BinExt

\* C14 (payload offset): whenever decrypt_file has accepted a file and
\* opened it, it reads the seed block from offset 32 + filenameLength, the
\* filenameLength being the field of the header, also when the filename
\* bytes are not valid UTF-8 and were decoded as Latin-1.
C14_PayloadOffset ==
    (Decrypted /\ ret.wrote) =>
        ret.seek = FILE_HEADER_SIZE + FilenameLengthField(fs[ret.src].data)

\* C14 for files whose filename bytes are valid UTF-8
C14_Utf8Names ==
    (Decrypted /\ ret.wrote /\ tamper.kind # "filename") =>
        ret.seek = FILE_HEADER_SIZE + FilenameLengthField(fs[ret.src].data)

\* C15 (key-pair consistency): after any sequence of generate_keys,
\* load_private_key and load_public_key calls, whenever the instance holds
\* a private key and a public key, the public key is the one of that
\* private key.
C15_KeyPairConsistent ==
    (private_key # None /\ public_key # None) => public_key = private_key

\* the precondition failures: NotFound, KeyMissing, InvalidFormat
EarlyFailures == {"FileNotFoundError", "KeyMissing", "InvalidFormat"}

\* C16 (early-failure frame): a call of encrypt_file or decrypt_file that
\* ends in NotFound, KeyMissing or InvalidFormat leaves every file as it
\* was, the destination neither created nor modified, and leaves the keys
\* of the instance as they were.
C16_EarlyFailureFrame ==
    [][(ret'.op \in {"encrypt_file", "decrypt_file"}
            /\ ret'.status \in EarlyFailures)
        => (fs' = fs /\ private_key' = private_key /\ public_key' = public_key)]_vars

C16_Witness ==
    /\ Decrypted
    /\ ret.status = "InvalidFormat"
    /\ private_key # None
    /\ fs[ret.dst] = File(StaleBytes)

=============================================================================
